---- MODULE Spec2Model ----
(***************************************************************************)
(* A model of the search-space narrowing controllers of seldnet_degree:    *)
(* search.py main and accdoa_search.py main, the Writer they persist       *)
(* through (writer_manager.py) and the canonicalisation postprocess_fn     *)
(* (nas_seldnet.py).  One controller process runs at a time; it can be     *)
(* killed at any step and started again on the same result directory.      *)
(*                                                                         *)
(* Abstractions.  A model config has one slot, BLOCK0, of stage type       *)
(* mother_stage; the search space is the hyperparameter domains of that    *)
(* stage.  A document on disk is "absent", "torn" (the file was opened     *)
(* with mode 'w', which truncates it, and not yet closed: every content    *)
(* it can hold then is a strict prefix of a JSON text, which never         *)
(* decodes) or "ok" with the decoded content.  The modules model_analyze   *)
(* and config_sampler are not among the sources; analyzer,                 *)
(* narrow_search_space, table_filter and get_config follow the             *)
(* specification's sections 4.2 and 4.5.                                   *)
(***************************************************************************)
EXTENDS Integers, Sequences, FiniteSets, TLC

(* ------------------------------ bounds -------------------------------- *)
\* --n_samples: trials per round (the program's default is 500)
NSamples == 2
\* rounds the model follows
MaxRound == 2
\* process starts the model follows (the first start included)
MaxStarts == 2
\* trainer failures in a row the model counts before it stops counting
MaxAttempts == 2

(* ------------------------- program constants -------------------------- *)
\* Writer.load: the retry ceiling
RetryCeiling == 10
\* --threshold, in hundredths (default 0.05)
ThresholdPct == 5

Rounds == 1..MaxRound
Scores == {0, 1}
Variants == {"search", "accdoa"}

(* ------------------------- configs and spaces ------------------------- *)
\* a Python tuple or list of ints; json.dump writes both as a JSON array and
\* json.load reads an array back as a list
Tup(s) == [tup |-> TRUE, v |-> s]
Lst(s) == [tup |-> FALSE, v |-> s]

\* The initial search space of BLOCK0.mother_stage, cut to two free
\* dimensions (filters0, kernel_size0); the other domains keep one value.
search_space_2d ==
    [filters0     |-> {0, 3},
     filters1     |-> {3},
     filters2     |-> {3},
     kernel_size0 |-> {1, 3},
     kernel_size1 |-> {1},
     kernel_size2 |-> {1},
     connect1     |-> {Lst(<<0, 0>>)},
     connect2     |-> {Lst(<<0, 0, 0>>)},
     strides      |-> {Tup(<<1, 1>>)}]

HPNames == DOMAIN search_space_2d

\* the dimensions whose values are integers (the ones narrowing works on here)
IntHP == {"filters0", "filters1", "filters2",
          "kernel_size0", "kernel_size1", "kernel_size2"}

\* json.dump then json.load of one value: a tuple comes back as a list
JsonValue(h, x) == IF h \in IntHP THEN x ELSE Lst(x.v)

\* json.dump then json.load of a search space
JsonSpace(dom) == [h \in HPNames |-> {JsonValue(h, x) : x \in dom[h]}]

\* json.dump then json.load of the arguments of a mother_stage
JsonArgs(a) == [h \in HPNames |-> JsonValue(h, a[h])]

\* json.dump then json.load of a model config
JsonConfig(c) == [c EXCEPT !.BLOCK0_ARGS = JsonArgs(c.BLOCK0_ARGS)]

\* a dump that writes the trial records in the opposite order
JsonResultsReversed(rs) ==
    [i \in 1..Len(rs) |->
        [rs[Len(rs) + 1 - i] EXCEPT !.config = JsonConfig(rs[Len(rs) + 1 - i].config)]]

\* json.dump then json.load of a sequence of trial records
JsonResults(rs) == [i \in 1..Len(rs) |-> [rs[i] EXCEPT !.config = JsonConfig(rs[i].config)]]

\* a canonicalisation that switches off one more layer on every call
PostprocessArgsCascade(a) ==
    IF a.filters1 = 0 /\ a.filters0 # 0 THEN [a EXCEPT !.filters0 = 0]
    ELSE IF a.filters2 = 0 /\ a.filters1 # 0 THEN [a EXCEPT !.filters1 = 0]
    ELSE a

\* a canonicalisation that zeroes the kernel sizes and leaves the rest
PostprocessArgsKernels(a) ==
    [a EXCEPT !.kernel_size0 = IF a.filters0 = 0 THEN 0 ELSE @,
              !.kernel_size1 = IF a.filters1 = 0 THEN 0 ELSE @,
              !.kernel_size2 = IF a.filters2 = 0 THEN 0 ELSE @]

\* postprocess_fn on the arguments of one mother_stage block; Python's
\* connect2[2] is connect2.v[3] here
PostprocessArgs(a) ==
    LET a1 == IF a.filters2 = 0
              THEN IF a.filters1 # 0
                   THEN [a EXCEPT !.connect2.v[3] = 1]
                   ELSE IF a.filters0 # 0
                        THEN [a EXCEPT !.connect2.v[2] = 1]
                        ELSE a
              ELSE a
        a2 == IF a1.filters0 = 0
              THEN [a1 EXCEPT !.kernel_size0 = 0,
                              !.connect1.v[2] = 0,
                              !.connect2.v[2] = 0]
              ELSE a1
        a3 == IF a2.filters1 = 0
              THEN [a2 EXCEPT !.kernel_size1 = 0,
                              !.connect2.v[3] = 0,
                              !.strides = Lst(<<1, 1>>)]
              ELSE a2
        a4 == IF a3.filters2 = 0
              THEN [a3 EXCEPT !.kernel_size2 = 0]
              ELSE a3
    IN a4

\* postprocess_fn: every BLOCK slot of stage type mother_stage is rewritten
postprocess_fn(c) ==
    IF c.BLOCK0 = "mother_stage"
    THEN [c EXCEPT !.BLOCK0_ARGS = PostprocessArgs(c.BLOCK0_ARGS)]
    ELSE c

\* every raw sample the space offers: one value per hyperparameter
RawSamples(dom) ==
    {[BLOCK0 |-> "mother_stage", BLOCK0_ARGS |-> a] :
        a \in [filters0 : dom.filters0, filters1 : dom.filters1,
               filters2 : dom.filters2, kernel_size0 : dom.kernel_size0,
               kernel_size1 : dom.kernel_size1, kernel_size2 : dom.kernel_size2,
               connect1 : dom.connect1, connect2 : dom.connect2,
               strides : dom.strides]}

\* get_config: draw a raw sample and canonicalise it; nothing is compared
\* with the trials already recorded
get_config(dom) == {postprocess_fn(raw) : raw \in RawSamples(dom)}

(* ------------------------------ documents ----------------------------- *)
Absent == [st |-> "absent", doc |-> <<>>]
\* open(path, 'w') has truncated the file and json.dump has not finished
Torn == [st |-> "torn", doc |-> <<>>]
Doc(d) == [st |-> "ok", doc |-> d]

\* os.path.exists
Exists(f) == f.st # "absent"
\* json.load decodes the file
Decodes(f) == f.st = "ok"

VARIABLES
    variant,        \* which controller runs: search.py or accdoa_search.py
    pc,             \* the controller's position; "off": no process runs
    exit,           \* how the last process ended
    index,          \* writer.index
    results,        \* main's results
    search_space,   \* main's search_space: [bound, dom]
    model_config,   \* the sampled config, <<>> when none
    outputs,        \* train_and_eval's result, <<>> when none
    check,          \* the narrowing loop's check
    removed_space,  \* the removal log narrow_search_space is writing
    configs,        \* train_and_eval's configs: what its error handler read of the log
    resFile,        \* result_<r>.json
    spFile,         \* search_space_<r>.json
    rmFile,         \* removed_space_<r>.json
    errFile,        \* error_models/error_model.json
    starts,         \* how many times the process was started
    acked,          \* per round, the records of the last completed dump
    crashed,        \* [round, recs]: what was persisted of the active round at the last kill
    trained,        \* trials the running process has trained to the end
    attempts,       \* trainer failures in a row since the last trained trial
    ld,             \* one call of Writer.load against a file another process rewrites
    su,             \* the startup of main: flags, train_config.json, its comparison
    pp,             \* postprocess_fn applied to a config, and to its own result
    cm,             \* config_manager: the ./config directory and calls of get_config
    sf,             \* the removal records applied to the gathered trials
    nw,             \* the analysis and the narrowing loop of one round
    tp,             \* two controller processes filling the same round
    fs,             \* a launch on a run directory that holds earlier rounds
    sz,             \* the fill loop of accdoa_search.py with the model-size test
    sc              \* one call of the predicate sample_constraint builds

locals == <<model_config, outputs, check, removed_space, configs>>
mem == <<index, results, search_space, locals>>
disk == <<resFile, spFile, rmFile, errFile>>
ghost == <<starts, acked, crashed, trained, attempts>>
fixed == <<variant, ld, su, pp, cm, sf, nw, tp, fs, sz, sc>>
controller == <<variant, pc, exit, mem, disk, ghost>>
vars == <<controller, ld, su, pp, cm, sf, nw, tp, fs, sz, sc>>

Unbound == [bound |-> FALSE, dom |-> search_space_2d]
Bound(dom) == [bound |-> TRUE, dom |-> dom]
NoCrash == [round |-> 0, recs |-> <<>>]

\* Writer.load has not been called
LoadIdle == [pc |-> "idle", count |-> 0, reads |-> 0, sleeps |-> 0,
             file |-> Absent, ret |-> <<>>]

\* nothing on disk, no process running
Fresh ==
    /\ variant \in Variants
    /\ pc = "off"
    /\ exit = "none"
    /\ index = 0
    /\ results = <<>>
    /\ search_space = Unbound
    /\ model_config = <<>>
    /\ outputs = <<>>
    /\ check = FALSE
    /\ removed_space = <<>>
    /\ configs = <<>>
    /\ resFile = [r \in Rounds |-> Absent]
    /\ spFile = [r \in Rounds |-> Absent]
    /\ rmFile = [r \in Rounds |-> Absent]
    /\ errFile = Absent
    /\ starts = 0
    /\ acked = [r \in Rounds |-> <<>>]
    /\ crashed = NoCrash
    /\ trained = 0
    /\ attempts = 0

\* no process was ever launched on the run directory
StartupIdle == [pc |-> "off", exit |-> "none", req |-> 0, eff |-> 0,
                new |-> FALSE, config |-> FALSE,
                tc |-> Absent, tc0 |-> Absent, docs |-> FALSE, runs |-> 0]

\* postprocess_fn has not been called
PostIdle == [pc |-> "idle", c |-> <<>>, once |-> <<>>, twice |-> <<>>]

\* config_manager: get_config not called, no ./config directory
ConfigIdle == [pc |-> "none", files |-> <<>>, mode |-> "", load |-> 0, typed |-> 0,
               name |-> 0, body |-> 0, how |-> "none", calls |-> 0, given |-> {}]

\* no removal record applied yet
FilterIdle == [pc |-> "idle", trials |-> <<>>, results |-> <<>>, removed |-> <<>>,
               applied |-> 0, error |-> "none"]

\* the analysis of the round has not begun
NarrowIdle == [pc |-> "idle", dom |-> <<>>, results |-> <<>>, table |-> {},
               tmp_table |-> {}, check |-> FALSE, removals |-> <<>>]

\* no second process
TwoIdle == [file |-> Absent, pc |-> <<>>, results |-> <<>>, rec |-> <<>>,
            trials |-> <<>>, dumped |-> {}]

\* no launch; the run directory is empty
LaunchIdle == [pc |-> "off", new |-> FALSE, nres |-> 0, nsp |-> 0, nrm |-> 0,
               index |-> 0, space |-> "unbound", found |-> 0]

\* the fill loop has not begun
SizeIdle == [pc |-> "idle", size |-> 0, model_config |-> <<>>, model_size |-> 0,
             outputs |-> <<>>, results |-> <<>>, rejected |-> 0]

\* the predicate has not been called
ConstraintIdle == [pc |-> "idle", model_config |-> <<>>, min_flops |-> 0 - 1,
                   max_flops |-> 0 - 1, out |-> "none", after |-> <<>>]

Init ==
    /\ Fresh
    /\ ld = LoadIdle /\ su = StartupIdle /\ pp = PostIdle /\ cm = ConfigIdle
    /\ sf = FilterIdle /\ nw = NarrowIdle /\ tp = TwoIdle /\ fs = LaunchIdle /\ sz = SizeIdle /\ sc = ConstraintIdle

\* the process is gone, and its memory with it
Ended(how) ==
    /\ pc' = "off"
    /\ exit' = how
    /\ index' = 0
    /\ results' = <<>>
    /\ search_space' = Unbound
    /\ model_config' = <<>>
    /\ outputs' = <<>>
    /\ check' = FALSE
    /\ removed_space' = <<>>
    /\ configs' = <<>>

\* an exception leaves main: the process ends with it
Raise(e) == Ended(e)

(* ------------------------------- Writer ------------------------------- *)
\* glob(result_*): the result documents of the run
NumResults == Cardinality({r \in Rounds : Exists(resFile[r])})

\* get_index without the decrement
get_index_count(num_result) == num_result

\* Writer.get_index
get_index(num_result) == IF num_result # 0 THEN num_result - 1 ELSE 0

\* Writer.__init__ and main up to the round loop
Start ==
    /\ pc = "off"
    /\ starts < MaxStarts
    /\ starts' = starts + 1
    /\ index' = get_index(NumResults)
    /\ pc' = "started"
    /\ exit' = "running"
    /\ trained' = 0
    /\ attempts' = 0
    /\ crashed' = IF exit = "killed" THEN crashed ELSE NoCrash
    /\ UNCHANGED <<fixed, results, search_space, locals, disk, acked>>

\* the steps of the fill loop of a round
FillingPcs == {"fill", "sample", "train", "err_dump", "record", "dump_res"}

\* the process is terminated from outside, at any point; a kill that strikes
\* the fill loop is remembered with the trials persisted by then
Kill ==
    /\ pc # "off"
    /\ Ended("killed")
    /\ crashed' = IF pc \in FillingPcs
                   THEN [round |-> index, recs |-> acked[index]]
                   ELSE NoCrash
    /\ UNCHANGED <<fixed, disk, starts, acked, trained, attempts>>

(* --------------------------- the round loop --------------------------- *)
\* main, top of "while True": the next round and its result document.
\* search.py reloads the document when it exists; accdoa_search.py creates
\* an empty one when it does not, and reloads later, inside the fill loop.
RoundTop ==
    /\ pc \in {"started", "loop"}
    /\ index < MaxRound
    /\ IF variant = "search"
       THEN IF Exists(resFile[index + 1]) /\ ~Decodes(resFile[index + 1])
            THEN Raise("JSONDecodeError") /\ UNCHANGED resFile
            ELSE /\ index' = index + 1
                 /\ results' = resFile[index + 1].doc
                 /\ pc' = "space"
                 /\ UNCHANGED <<exit, search_space, locals, resFile>>
       ELSE /\ index' = index + 1
            /\ results' = <<>>
            /\ IF Exists(resFile[index + 1])
               THEN pc' = "space" /\ UNCHANGED resFile
               ELSE /\ resFile' = [resFile EXCEPT ![index + 1] = Torn]
                    /\ pc' = "dump_empty"
            /\ UNCHANGED <<exit, search_space, locals>>
    /\ UNCHANGED <<fixed, spFile, rmFile, errFile, ghost>>

\* accdoa_search.py: writer.dump([], current_result_path) completes
DumpEmptyClose ==
    /\ pc = "dump_empty"
    /\ resFile' = [resFile EXCEPT ![index] = Doc(<<>>)]
    /\ acked' = [acked EXCEPT ![index] = <<>>]
    /\ pc' = "space"
    /\ UNCHANGED <<fixed, exit, mem, spFile, rmFile, errFile, starts, crashed, trained,
                   attempts>>

\* what main takes when search_space_<index>.json is absent: search.py always
\* builds the initial space; accdoa_search.py builds it for round 1 and
\* otherwise dumps its local variable search_space
SpaceWhenAbsent ==
    IF variant = "search" \/ index = 1
    THEN Bound(search_space_2d)
    ELSE search_space

\* main: the search space of the round
Space ==
    /\ pc = "space"
    /\ IF Exists(spFile[index])
       THEN IF Decodes(spFile[index])
            THEN /\ search_space' = Bound(spFile[index].doc[1])
                 /\ pc' = "fill"
                 /\ UNCHANGED <<exit, index, results, locals, spFile>>
            ELSE Raise("JSONDecodeError") /\ UNCHANGED spFile
       ELSE IF SpaceWhenAbsent.bound
            THEN /\ search_space' = SpaceWhenAbsent
                 /\ spFile' = [spFile EXCEPT ![index] = Torn]
                 /\ pc' = "dump_space"
                 /\ UNCHANGED <<exit, index, results, locals>>
            ELSE Raise("UnboundLocalError: search_space") /\ UNCHANGED spFile
    /\ UNCHANGED <<fixed, resFile, rmFile, errFile, ghost>>

\* writer.dump(search_space, search_space_path) completes
DumpSpaceClose ==
    /\ pc = "dump_space"
    /\ spFile' = [spFile EXCEPT ![index] = Doc(<<JsonSpace(search_space.dom)>>)]
    /\ pc' = "fill"
    /\ UNCHANGED <<fixed, exit, mem, resFile, rmFile, errFile, ghost>>

(* ------------------------------ FILLING ------------------------------- *)
\* the trial record main appends
Record == [config |-> model_config[1], perf |-> outputs[1]]

\* a test that is satisfied one trial early
FullEarly(rs) == Len(rs) + 1 >= NSamples

\* the round has its trials: range(len(results), n_samples) is empty, and
\* "len(results) < n_samples" is false
Full(rs) == Len(rs) >= NSamples

\* search.py "for number in range(len(results), n_samples)" and
\* accdoa_search.py "while len(results) < n_samples", which first reloads
\* the result document and leaves the loop when it is full
FillCheck ==
    /\ pc = "fill"
    /\ IF Full(results)
       THEN /\ pc' = "analyze"
            /\ UNCHANGED <<exit, mem>>
       ELSE IF variant = "accdoa" /\ Exists(resFile[index])
            THEN IF Decodes(resFile[index])
                 THEN /\ results' = resFile[index].doc
                      /\ pc' = IF Full(resFile[index].doc)
                               THEN "analyze" ELSE "sample"
                      /\ UNCHANGED <<exit, index, search_space, locals>>
                 ELSE Raise("JSONDecodeError")
            ELSE /\ pc' = "sample"
                 /\ UNCHANGED <<exit, mem>>
    /\ UNCHANGED <<fixed, disk, ghost>>

\* model_config = get_config(train_config, search_space, ...)
Sample ==
    /\ pc = "sample"
    /\ \E c \in get_config(search_space.dom) : model_config' = <<c>>
    /\ pc' = "train"
    /\ UNCHANGED <<fixed, exit, index, results, search_space,
                   outputs, check, removed_space, configs, disk, ghost>>

\* train_and_eval returns the performances
TrainOk ==
    /\ pc = "train"
    /\ \E s \in Scores : outputs' = <<[objective_score |-> s]>>
    /\ pc' = "record"
    /\ trained' = trained + 1
    /\ attempts' = 0
    /\ UNCHANGED <<fixed, exit, index, results, search_space,
                   model_config, check, removed_space, configs, disk, starts, acked, crashed>>

\* accdoa_search.py train_and_eval raises: the model is above the size
\* limit (ValueError), or the build runs out of memory and the handler
\* itself raises: json.load of an undecodable log, or TypeError on
\* "configs + model_config" after open(..., 'w') has emptied the log.
\* main's bare except swallows it and samples again.
TrainFailAccdoa ==
    /\ pc = "train"
    /\ variant = "accdoa"
    /\ \E how \in {"size", "ResourceExhaustedError"} :
         errFile' = IF how = "size" \/ (Exists(errFile) /\ ~Decodes(errFile))
                    THEN errFile
                    ELSE Torn
    /\ model_config' = <<>>
    /\ pc' = "sample"
    /\ attempts' = IF attempts <= MaxAttempts THEN attempts + 1 ELSE attempts
    /\ UNCHANGED <<fixed, exit, index, results, search_space,
                   outputs, check, removed_space, configs, resFile, spFile, rmFile,
                   starts, acked, crashed, trained>>

\* search.py train_and_eval: models.conv_temporal raises; the handler reads
\* the log when it exists (configs = [model_config] otherwise) and opens it
\* for writing
TrainFailSearch ==
    /\ pc = "train"
    /\ variant = "search"
    /\ IF Exists(errFile) /\ ~Decodes(errFile)
       THEN Raise("JSONDecodeError: error_model") /\ UNCHANGED errFile
       ELSE /\ configs' = IF Exists(errFile) THEN errFile.doc ELSE <<model_config[1]>>
            /\ errFile' = Torn
            /\ pc' = "err_dump"
            /\ UNCHANGED <<exit, index, results, search_space,
                           model_config, outputs, check, removed_space>>
    /\ UNCHANGED <<fixed, resFile, spFile, rmFile, ghost>>

\* search.py train_and_eval: json.dump(model_config, f) completes, the
\* handler falls through to model.compile, and model was never assigned
ErrDumpClose ==
    /\ pc = "err_dump"
    /\ errFile' = Doc(<<JsonConfig(model_config[1])>>)
    /\ Raise("UnboundLocalError: model")
    /\ UNCHANGED <<fixed, resFile, spFile, rmFile, ghost>>

\* main: results.append({'config': ..., 'perf': ...}) and the start of
\* writer.dump(results, current_result_path); accdoa_search.py reloads the
\* document first and stops when it is already full
RecordTrial ==
    /\ pc = "record"
    /\ IF variant = "accdoa" /\ Exists(resFile[index])
       THEN IF Decodes(resFile[index])
            THEN IF Full(resFile[index].doc)
                 THEN /\ results' = resFile[index].doc
                      /\ pc' = "analyze"
                      /\ UNCHANGED <<exit, index, search_space, locals, resFile>>
                 ELSE /\ results' = Append(resFile[index].doc, Record)
                      /\ resFile' = [resFile EXCEPT ![index] = Torn]
                      /\ pc' = "dump_res"
                      /\ UNCHANGED <<exit, index, search_space, locals>>
            ELSE Raise("JSONDecodeError") /\ UNCHANGED resFile
       ELSE /\ results' = Append(results, Record)
            /\ resFile' = [resFile EXCEPT ![index] = Torn]
            /\ pc' = "dump_res"
            /\ UNCHANGED <<exit, index, search_space, locals>>
    /\ UNCHANGED <<fixed, spFile, rmFile, errFile, ghost>>

\* writer.dump(results, current_result_path) completes
DumpResClose ==
    /\ pc = "dump_res"
    /\ resFile' = [resFile EXCEPT ![index] = Doc(JsonResults(results))]
    /\ acked' = [acked EXCEPT ![index] = JsonResults(results)]
    /\ model_config' = <<>>
    /\ outputs' = <<>>
    /\ pc' = "fill"
    /\ UNCHANGED <<fixed, exit, index, results, search_space,
                   check, removed_space, configs, spFile, rmFile, errFile,
                   starts, crashed, trained, attempts>>

(* --------------------- ANALYZING and NARROWING ------------------------ *)
RECURSIVE SumScore(_, _)
\* the sum of the objective scores of the trials at positions S
SumScore(rs, S) ==
    IF S = {} THEN 0
    ELSE LET i == CHOOSE j \in S : TRUE
         IN rs[i].perf.objective_score + SumScore(rs, S \ {i})

\* the trials whose config used value v at dimension h
Support(rs, h, v) == {i \in 1..Len(rs) : rs[i].config.BLOCK0_ARGS[h] = v}

\* analyzer: one row per value of a dimension that still has more than one
\* value, with the sum and the count of the supporting trials; a value no
\* trial supports has no row
analyzer(dom, rs) ==
    LET rows == UNION {{[hp |-> h, value |-> v,
                         sum |-> SumScore(rs, Support(rs, h, v)),
                         count |-> Cardinality(Support(rs, h, v))] : v \in dom[h]}
                       : h \in {g \in IntHP : Cardinality(dom[g]) > 1}}
    IN {x \in rows : x.count > 0}

\* mean(x) - mean(y) > threshold, on sums and counts
WorseBy(x, y) ==
    (x.sum * y.count - y.sum * x.count) * 100 > ThresholdPct * x.count * y.count

\* table_filter: the removable rows, those worse than the best value of
\* their dimension by more than the threshold
table_filter(table) ==
    {x \in table : \E y \in table : y.hp = x.hp /\ WorseBy(x, y)}

\* the removable rows of the highest mean
Worst(tmp) == {x \in tmp : \A y \in tmp : x.sum * y.count >= y.sum * x.count}

\* search_space_filter(target, unit)(trial): keep the trial unless its
\* config holds unit at target
search_space_filter(target, unit, r) == r.config.BLOCK0_ARGS[target] # unit

RECURSIVE Filter(_, _, _)
\* list(filter(search_space_filter(target, unit), rs))
Filter(rs, target, unit) ==
    IF rs = <<>> THEN <<>>
    ELSE IF search_space_filter(target, unit, Head(rs))
         THEN <<Head(rs)>> \o Filter(Tail(rs), target, unit)
         ELSE Filter(Tail(rs), target, unit)

RECURSIVE FilterAll(_, _)
\* main: one filter per removal record, in order
FilterAll(rs, removes) ==
    IF removes = <<>> THEN rs
    ELSE FilterAll(Filter(rs, Head(removes).target, Head(removes).unit), Tail(removes))

RECURSIVE Concat(_, _)
\* the documents of files f[1..r], those that exist, one after the other
Concat(f, r) ==
    IF r = 0 THEN <<>>
    ELSE Concat(f, r - 1) \o (IF Exists(f[r]) THEN f[r].doc ELSE <<>>)

\* the trials main hands to the analyzer: search.py its in-memory results
\* of the round, accdoa_search.py every result document filtered by every
\* removal log
Gathered ==
    IF variant = "search" THEN results
    ELSE FilterAll(Concat(resFile, MaxRound), Concat(rmFile, MaxRound))

\* a guard that lets every list pass
FilteringWrongNever(rs) == FALSE

\* if len(results) < train_config.n_samples: raise ValueError('filtering is wrong')
FilteringWrong(rs) == Len(rs) < NSamples

\* accdoa_search.py loads every result_* and removed_space_* document
GatherDecodes ==
    \/ variant = "search"
    \/ \A r \in Rounds : /\ Exists(resFile[r]) => Decodes(resFile[r])
                         /\ Exists(rmFile[r]) => Decodes(rmFile[r])

\* main after the fill loop: gather, guard, build the table, and return
\* when no row is removable
Analyze ==
    /\ pc = "analyze"
    /\ IF ~GatherDecodes
       THEN Raise("JSONDecodeError")
       ELSE IF variant = "accdoa" /\ FilteringWrong(Gathered)
            THEN Raise("ValueError: filtering is wrong")
            ELSE IF table_filter(analyzer(search_space.dom, Gathered)) = {}
                 THEN Ended("complete")
                 ELSE /\ results' = Gathered
                      /\ check' = TRUE
                      /\ pc' = "narrow"
                      /\ UNCHANGED <<exit, index, search_space, model_config, outputs,
                                     removed_space, configs>>
    /\ UNCHANGED <<fixed, disk, ghost>>

\* narrow_search_space: the space without value v of dimension h
RemoveValue(dom, h, v) == [dom EXCEPT ![h] = dom[h] \ {v}]

\* one pass of the narrowing loop: the table is rebuilt, and when a row is
\* removable narrow_search_space removes the single worst value, drops the
\* trials that used it and starts writing the round's removal log.
\* search.py loops while a pass changed the space; accdoa_search.py loops
\* while the pass left removable rows (check = len(res_table) != 0).
NarrowPass ==
    /\ pc = "narrow"
    /\ LET tmp_table == table_filter(analyzer(search_space.dom, results))
       IN IF tmp_table = {}
          THEN /\ check' = FALSE
               /\ pc' = "loop"
               /\ UNCHANGED <<exit, index, results, search_space, model_config, outputs,
                              removed_space, configs, rmFile>>
          ELSE IF Exists(rmFile[index]) /\ ~Decodes(rmFile[index])
               THEN Raise("JSONDecodeError") /\ UNCHANGED rmFile
               ELSE \E x \in Worst(tmp_table) :
                      /\ search_space' = Bound(RemoveValue(search_space.dom, x.hp, x.value))
                      /\ results' = Filter(results, x.hp, x.value)
                      /\ removed_space' = Append(rmFile[index].doc,
                                                 [target |-> x.hp, unit |-> x.value])
                      /\ rmFile' = [rmFile EXCEPT ![index] = Torn]
                      /\ check' = (variant = "search" \/ tmp_table \ {x} # {})
                      /\ pc' = "dump_rm"
                      /\ UNCHANGED <<exit, index, model_config, outputs, configs>>
    /\ UNCHANGED <<fixed, resFile, spFile, errFile, ghost>>

\* the removal log is written; "while check" decides what follows
DumpRemovedClose ==
    /\ pc = "dump_rm"
    /\ rmFile' = [rmFile EXCEPT ![index] = Doc(removed_space)]
    /\ removed_space' = <<>>
    /\ pc' = IF check THEN "narrow" ELSE "loop"
    /\ UNCHANGED <<fixed, exit, index, results, search_space, model_config, outputs,
                   check, configs, resFile, spFile, errFile, ghost>>

Next ==
    \/ Start \/ Kill \/ RoundTop \/ DumpEmptyClose \/ Space \/ DumpSpaceClose
    \/ FillCheck \/ Sample \/ TrainOk \/ TrainFailAccdoa \/ TrainFailSearch
    \/ ErrDumpClose \/ RecordTrial \/ DumpResClose
    \/ Analyze \/ NarrowPass \/ DumpRemovedClose

Spec == Init /\ [][Next]_vars

(* ----------------------------- Writer.load ---------------------------- *)
(* One call of Writer.load(path), step by step, while another process     *)
(* (a monitoring tool, a second writer) rewrites the file between reads.  *)
(* In Spec above the file does not change during a load, so a load        *)
(* returns the document of a file that decodes and otherwise ends in      *)
(* JSONDecodeError.                                                       *)

\* what the file can hold at a read
LoadFiles == {Torn, Doc(<<1>>), Doc(<<2>>)}

\* a ceiling test that lets one more retry through
AtCeilingLate(count) == count = RetryCeiling + 1

\* Writer.load "finally: if count == 10"
AtCeiling(count) == count = RetryCeiling

LoadInit ==
    /\ Fresh
    /\ su = StartupIdle /\ pp = PostIdle /\ cm = ConfigIdle
    /\ sf = FilterIdle /\ nw = NarrowIdle /\ tp = TwoIdle /\ fs = LaunchIdle /\ sz = SizeIdle /\ sc = ConstraintIdle
    /\ ld \in {[LoadIdle EXCEPT !.pc = "try", !.file = f] : f \in LoadFiles}

\* try: with open(path, 'r') as f: return json.load(f)
LoadTry ==
    /\ ld.pc = "try"
    /\ ld' = IF Decodes(ld.file)
             THEN [ld EXCEPT !.reads = @ + 1, !.pc = "returned", !.ret = ld.file.doc]
             ELSE [ld EXCEPT !.reads = @ + 1, !.pc = "except"]
    /\ UNCHANGED <<controller, su, pp, cm, sf, nw, tp, fs, sz, sc>>

\* except JSONDecodeError: sleep(1); count += 1; then the finally clause
LoadExcept ==
    /\ ld.pc = "except"
    /\ ld' = [ld EXCEPT !.sleeps = @ + 1, !.count = @ + 1,
                        !.pc = IF AtCeiling(ld.count + 1) THEN "final" ELSE "try"]
    /\ UNCHANGED <<controller, su, pp, cm, sf, nw, tp, fs, sz, sc>>

\* finally, at the ceiling: with open(path, 'r') as f: return json.load(f),
\* whose JSONDecodeError nothing catches
LoadFinal ==
    /\ ld.pc = "final"
    /\ ld' = IF Decodes(ld.file)
             THEN [ld EXCEPT !.reads = @ + 1, !.pc = "returned", !.ret = ld.file.doc]
             ELSE [ld EXCEPT !.reads = @ + 1, !.pc = "raised"]
    /\ UNCHANGED <<controller, su, pp, cm, sf, nw, tp, fs, sz, sc>>

\* another process rewrites the file while load runs
ExternalWrite ==
    /\ ld.pc \in {"try", "except", "final"}
    /\ \E f \in LoadFiles : f # ld.file /\ ld' = [ld EXCEPT !.file = f]
    /\ UNCHANGED <<controller, su, pp, cm, sf, nw, tp, fs, sz, sc>>

LoadNext == LoadTry \/ LoadExcept \/ LoadFinal \/ ExternalWrite

SpecLoad == LoadInit /\ [][LoadNext]_vars

(* --------------------------- postprocess_fn --------------------------- *)
(* postprocess_fn applied to any config of one BLOCK slot, and once more  *)
(* to what it returned.                                                   *)

\* stage types of a slot: mother_stage and one that postprocess_fn skips
StageTypes == {"mother_stage", "bidirectional_GRU_stage"}

\* every argument record of a block, canonical or not
AnyArgs ==
    [filters0 : {0, 3}, filters1 : {0, 3}, filters2 : {0, 3},
     kernel_size0 : {1, 3}, kernel_size1 : {1, 3}, kernel_size2 : {1, 3},
     connect1 : {Lst(<<x, y>>) : x, y \in {0, 1}},
     connect2 : {Lst(<<x, y, z>>) : x, y, z \in {0, 1}},
     strides : {Tup(<<1, 1>>), Tup(<<1, 2>>), Lst(<<1, 1>>)}]

AnyConfig == [BLOCK0 : StageTypes, BLOCK0_ARGS : AnyArgs]

PostInit ==
    /\ Fresh
    /\ variant = "search"
    /\ ld = LoadIdle /\ su = StartupIdle /\ cm = ConfigIdle
    /\ sf = FilterIdle /\ nw = NarrowIdle /\ tp = TwoIdle /\ fs = LaunchIdle /\ sz = SizeIdle /\ sc = ConstraintIdle
    /\ pp \in {[PostIdle EXCEPT !.pc = "raw", !.c = c] : c \in AnyConfig}

\* postprocess_fn(c)
ApplyOnce ==
    /\ pp.pc = "raw"
    /\ pp' = [pp EXCEPT !.pc = "once", !.once = postprocess_fn(pp.c)]
    /\ UNCHANGED <<controller, ld, su, cm, sf, nw, tp, fs, sz, sc>>

\* postprocess_fn(postprocess_fn(c))
ApplyTwice ==
    /\ pp.pc = "once"
    /\ pp' = [pp EXCEPT !.pc = "twice", !.twice = postprocess_fn(pp.once)]
    /\ UNCHANGED <<controller, ld, su, cm, sf, nw, tp, fs, sz, sc>>

PostNext == ApplyOnce \/ ApplyTwice

SpecPost == PostInit /\ [][PostNext]_vars

(* --------------------------- config_manager --------------------------- *)
(* get_config of config_manager.py on a directory ./config that holds the *)
(* version documents <name>_v_0.json ... of one name.  A document is its  *)
(* version number and its body, the comparable content (every field but   *)
(* name and gpus), written as a number; cm.files[v + 1] is the body of    *)
(* version v and NoFile when the document does not exist.  Every typed    *)
(* config has the same keys as every stored one, as configs parsed by one *)
(* argparse parser have.                                                  *)

\* versions the directory holds at the start, at most
MaxVersions == 11
\* calls of get_config the model follows
MaxCalls == 2

NoFile == 0 - 1
\* the highest version a document can get in the model
TopVersion == MaxVersions + MaxCalls
Versions == 0..TopVersion
\* bodies: one per version of the start, and one more per call
Bodies == 0..TopVersion
\* mode: '' creates, 'l' loads, 'lo' loads and uses only what is stored
\* ('ol' is the same mode: get_config tests 'l' in mode and 'o' in mode)
Modes == {"", "l", "lo"}

Stored(files) == {v \in Versions : files[v + 1] # NoFile}

\* the decimal digits of a version number, as in a file name
Digits(n) == IF n < 10 THEN <<n>> ELSE <<n \div 10, n % 10>>

\* a < b as strings: the order sorted() gives file names "..._v_<a>.json"
\* ("." sorts before every digit)
LexLess(a, b) ==
    \E i \in 1..Len(b) :
        /\ \A j \in 1..(i - 1) : j <= Len(a) /\ a[j] = b[j]
        /\ i > Len(a) \/ a[i] < b[i]

\* sorted(glob(...))[-1]: the last file name in string order
Latest(files) ==
    CHOOSE v \in Stored(files) :
        \A w \in Stored(files) : w = v \/ LexLess(Digits(w), Digits(v))

\* manage_version: the version after the latest
manage_version(files) == 1 + Latest(files)

\* find_duplicate_config: find is set once, before the loop, so the first
\* document glob lists decides: its name when its body equals the new one,
\* False (NoFile here) otherwise; first is that document
find_duplicate_config(files, newbody, first) ==
    IF files[first + 1] = newbody THEN first ELSE NoFile

\* the directories the calls start from: versions 0..n-1, all bodies different
ConfigInit ==
    /\ Fresh
    /\ variant = "search"
    /\ ld = LoadIdle /\ su = StartupIdle /\ pp = PostIdle
    /\ sf = FilterIdle /\ nw = NarrowIdle /\ tp = TwoIdle /\ fs = LaunchIdle /\ sz = SizeIdle /\ sc = ConstraintIdle
    /\ \E n \in 0..MaxVersions :
         cm = [ConfigIdle EXCEPT
                 !.pc = "idle",
                 !.files = [i \in 1..(TopVersion + 1) |-> IF i <= n THEN i - 1 ELSE NoFile]]

\* get_config(name, config, path, mode) is called: name is <name>_v_<load>
\* when loading, config has the body typed (a stored body, or a new one)
CallGetConfig ==
    /\ cm.pc \in {"idle", "returned", "raised"}
    /\ cm.calls < MaxCalls
    /\ \E m \in Modes, k \in Versions, b \in Bodies :
         /\ k <= (IF m = "" THEN 0 ELSE Cardinality(Stored(cm.files)))
         /\ b <= Cardinality(Stored(cm.files))
         /\ cm' = [cm EXCEPT !.pc = "called", !.mode = m, !.load = k, !.typed = b,
                             !.how = "none", !.calls = @ + 1]
    /\ UNCHANGED <<controller, ld, su, pp, sf, nw, tp, fs, sz, sc>>

\* get_config returns final_config with final_config['name'] = version v
Returns(files, v, b, how) ==
    cm' = [cm EXCEPT !.pc = "returned", !.files = files, !.name = v, !.body = b,
                     !.how = how, !.given = @ \cup {<<v, b>>}]

\* get_config, mode '': <name>_v_0.json is saved unless it exists
CreateMode ==
    /\ cm.pc = "called"
    /\ cm.mode = ""
    /\ IF cm.files[1] = NoFile
       THEN Returns([cm.files EXCEPT ![1] = cm.typed], 0, cm.typed, "saved")
       ELSE Returns(cm.files, 0, cm.typed, "kept")
    /\ UNCHANGED <<controller, ld, su, pp, sf, nw, tp, fs, sz, sc>>

\* get_config, mode with 'l' and 'o': loaded_config after over_write_config
\* has written every typed value into it
OnlyLoadedMode ==
    /\ cm.pc = "called"
    /\ cm.mode = "lo"
    /\ IF cm.files[cm.load + 1] = NoFile
       THEN cm' = [cm EXCEPT !.pc = "raised", !.how = "ValueError"]
       ELSE Returns(cm.files, cm.load, cm.typed, "only loaded")
    /\ UNCHANGED <<controller, ld, su, pp, sf, nw, tp, fs, sz, sc>>

\* get_config, mode 'l': load, overwrite with the typed values, then reuse a
\* duplicate or save the next version
LoadMode ==
    /\ cm.pc = "called"
    /\ cm.mode = "l"
    /\ IF cm.files[cm.load + 1] = NoFile
       THEN cm' = [cm EXCEPT !.pc = "raised", !.how = "ValueError"]
       ELSE \E first \in Stored(cm.files) :
              LET dup == find_duplicate_config(cm.files, cm.typed, first)
                  new == manage_version(cm.files)
              IN IF dup # NoFile
                 THEN Returns(cm.files, dup, cm.typed, "duplicate")
                 ELSE Returns([cm.files EXCEPT ![new + 1] = cm.typed],
                              new, cm.typed, "saved")
    /\ UNCHANGED <<controller, ld, su, pp, sf, nw, tp, fs, sz, sc>>

ConfigNext == CallGetConfig \/ CreateMode \/ OnlyLoadedMode \/ LoadMode

SpecConfig == ConfigInit /\ [][ConfigNext]_vars

(* ------------------------------ startup ------------------------------- *)
(* main from its first statement to the round loop, for successive        *)
(* launches on one run directory with any flags and any requested         *)
(* configuration.  su.tc is train_config.json, su.docs says whether the   *)
(* directory holds documents a round loop wrote, su.tc0 remembers         *)
(* train_config.json as the launch found it.  Spec above follows the      *)
(* launches that pass this startup without --new.                         *)

\* launches the model follows
MaxRuns == 2

\* the comparable content of a train config (say, the value of --n_samples)
TrainConfigs == {1, 2}

\* a comparison that lets every stored document pass
MismatchNever(loaded, requested) == FALSE

\* main: loaded_train_config != vars(train_config)
Mismatch(loaded, requested) == loaded # requested

StartupInit ==
    /\ Fresh
    /\ ld = LoadIdle /\ pp = PostIdle /\ cm = ConfigIdle
    /\ su = StartupIdle
    /\ sf = FilterIdle /\ nw = NarrowIdle /\ tp = TwoIdle /\ fs = LaunchIdle /\ sz = SizeIdle /\ sc = ConstraintIdle

\* the process ends: how, and nothing else changes
StartupEnds(how) == su' = [su EXCEPT !.pc = "off", !.exit = how]

\* args.parse_args(): the command line of a launch
Launch ==
    /\ su.pc = "off"
    /\ su.runs < MaxRuns
    /\ \E r \in TrainConfigs, n \in BOOLEAN, c \in BOOLEAN :
         su' = [su EXCEPT !.pc = "init", !.exit = "running", !.req = r, !.eff = r,
                          !.new = n, !.config = c, !.tc0 = su.tc, !.runs = @ + 1]
    /\ UNCHANGED <<controller, ld, pp, cm, sf, nw, tp, fs, sz, sc>>

\* Writer.__init__: with --new, rm -rf of everything in the run directory
WriterInit ==
    /\ su.pc = "init"
    /\ su' = IF su.new
             THEN [su EXCEPT !.pc = "args", !.tc = Absent, !.docs = FALSE]
             ELSE [su EXCEPT !.pc = "args"]
    /\ UNCHANGED <<controller, ld, pp, cm, sf, nw, tp, fs, sz, sc>>

\* main: with --config, train_config.update(writer.load(train_config.json))
Reuse ==
    /\ su.pc = "args"
    /\ IF ~su.config THEN su' = [su EXCEPT !.pc = "check"]
       ELSE IF ~Exists(su.tc) THEN StartupEnds("FileNotFoundError")
       ELSE IF ~Decodes(su.tc) THEN StartupEnds("JSONDecodeError")
       ELSE su' = [su EXCEPT !.pc = "check", !.eff = su.tc.doc[1]]
    /\ UNCHANGED <<controller, ld, pp, cm, sf, nw, tp, fs, sz, sc>>

\* main: the train config is dumped when absent and compared otherwise
CheckTrainConfig ==
    /\ su.pc = "check"
    /\ IF ~Exists(su.tc) THEN su' = [su EXCEPT !.pc = "dump_tc", !.tc = Torn]
       ELSE IF ~Decodes(su.tc) THEN StartupEnds("JSONDecodeError")
       ELSE IF Mismatch(su.tc.doc[1], su.eff)
            THEN StartupEnds("ValueError: train config doesn't match")
       ELSE su' = [su EXCEPT !.pc = "loop"]
    /\ UNCHANGED <<controller, ld, pp, cm, sf, nw, tp, fs, sz, sc>>

\* writer.train_config_dump() completes
DumpTrainConfigClose ==
    /\ su.pc = "dump_tc"
    /\ su' = [su EXCEPT !.pc = "loop", !.tc = Doc(<<su.eff>>)]
    /\ UNCHANGED <<controller, ld, pp, cm, sf, nw, tp, fs, sz, sc>>

\* the round loop samples, trains and writes documents of the run
RoundLoopWrites ==
    /\ su.pc = "loop"
    /\ ~su.docs
    /\ su' = [su EXCEPT !.docs = TRUE]
    /\ UNCHANGED <<controller, ld, pp, cm, sf, nw, tp, fs, sz, sc>>

\* the process is terminated from outside, or the round loop ends
StartupKill ==
    /\ su.pc # "off"
    /\ StartupEnds("killed")
    /\ UNCHANGED <<controller, ld, pp, cm, sf, nw, tp, fs, sz, sc>>

StartupNext ==
    \/ Launch \/ WriterInit \/ Reuse \/ CheckTrainConfig
    \/ DumpTrainConfigClose \/ RoundLoopWrites \/ StartupKill

SpecStartup == StartupInit /\ [][StartupNext]_vars

(* ------------------------ search_space_filter ------------------------- *)
(* main of accdoa_search.py after the fill loop: the trials of every      *)
(* result document are gathered and the removal records of every removal  *)
(* log are applied to them, one filter per record. The history here holds *)
(* trials whose BLOCK0 slot chose the 2D stage and trials whose slot      *)
(* chose a 1D stage, which has other hyperparameters.                     *)

MaxTrials == 3
MaxRemovals == 2

\* the sequences over S of length n at most
SeqsUpTo(S, n) == UNION {[1..k -> S] : k \in 0..n}

\* search_space_1d, cut to one stage type and two values of units
GruConfigs ==
    {[BLOCK0 |-> "bidirectional_GRU_stage", BLOCK0_ARGS |-> [depth |-> 1, units |-> u]] :
        u \in {16, 24}}

\* the configs a result document can hold, as json.load returns them
HistoryConfigs == {JsonConfig(c) : c \in get_config(search_space_2d)} \cup GruConfigs

\* the trial records of the result documents
HistoryTrials == {[config |-> c, perf |-> [objective_score |-> 0]] : c \in HistoryConfigs}

\* the removal records of the removal logs: a hyperparameter of BLOCK0_ARGS
\* and one of the values the search space offered for it
RemovalRecords ==
    UNION {{[target |-> h, unit |-> v] : v \in search_space_2d[h]} :
              h \in {"filters0", "kernel_size0"}}
    \cup {[target |-> "units", unit |-> u] : u \in {16, 24}}

\* _search_space_filter raises ValueError: the trial's BLOCK0_ARGS has no
\* entry for the hyperparameter
FilterRaises(target, r) == target \notin DOMAIN r.config.BLOCK0_ARGS

FilterInit ==
    /\ Fresh
    /\ variant = "accdoa"
    /\ ld = LoadIdle /\ su = StartupIdle /\ pp = PostIdle /\ cm = ConfigIdle
    /\ nw = NarrowIdle /\ tp = TwoIdle /\ fs = LaunchIdle /\ sz = SizeIdle /\ sc = ConstraintIdle
    /\ sf \in {[FilterIdle EXCEPT !.pc = "gathered", !.trials = t, !.results = t,
                                  !.removed = r] :
                  t \in SeqsUpTo(HistoryTrials, MaxTrials),
                  r \in SeqsUpTo(RemovalRecords, MaxRemovals)}

\* for remove in removed_space: results = list(filter(...)); list() calls
\* the filter on every trial, and an exception of one call ends main
ApplyRemoval ==
    /\ sf.pc = "gathered"
    /\ sf.applied < Len(sf.removed)
    /\ LET remove == sf.removed[sf.applied + 1]
       IN IF \E i \in 1..Len(sf.results) : FilterRaises(remove.target, sf.results[i])
          THEN sf' = [sf EXCEPT !.pc = "raised", !.error = "ValueError"]
          ELSE sf' = [sf EXCEPT !.results = Filter(@, remove.target, remove.unit),
                                !.applied = @ + 1]
    /\ UNCHANGED <<controller, ld, su, pp, cm, nw, tp, fs, sz, sc>>

\* if len(results) < train_config.n_samples: raise; else the analyzer
GuardCount ==
    /\ sf.pc = "gathered"
    /\ sf.applied = Len(sf.removed)
    /\ IF FilteringWrong(sf.results)
       THEN sf' = [sf EXCEPT !.pc = "raised", !.error = "ValueError: filtering is wrong"]
       ELSE sf' = [sf EXCEPT !.pc = "analyzer"]
    /\ UNCHANGED <<controller, ld, su, pp, cm, nw, tp, fs, sz, sc>>

FilterNext == ApplyRemoval \/ GuardCount

SpecFilter == FilterInit /\ [][FilterNext]_vars

(* --------------------------- narrowing loop --------------------------- *)
(* The end of one round on its own: the analysis after the fill loop and  *)
(* the loop "while check" around narrow_search_space, for a round of      *)
(* MaxNarrowTrials trials, enough for two removals in the round.          *)
(* accdoa_search.py calls narrow_search_space again with the rows it      *)
(* returned when the call changed nothing; search.py leaves the loop.     *)

MaxNarrowTrials == 3

\* the results of the round: every list of trials of the initial space
NarrowTrialLists ==
    [1..MaxNarrowTrials ->
        {[config |-> c, perf |-> [objective_score |-> s]] :
            c \in get_config(search_space_2d), s \in Scores}]

\* a loop that keeps the table it has
LoopTableStale(old, dom, rs) == IF old = {} THEN analyzer(dom, rs) ELSE old

\* "table = analyzer(search_space, results, train_config)" at the top of
\* the loop body
LoopTable(old, dom, rs) == analyzer(dom, rs)

\* narrow_search_space on the removable rows tmp: nothing to do when there
\* is none; otherwise it takes the worst row and either removes its value,
\* dropping the trials that used it, or leaves the space as it is because
\* the sample floor does not allow the removal; it returns the other rows
narrow_search_space(dom, tmp, rs) ==
    IF tmp = {}
    THEN {[changed |-> FALSE, dom |-> dom, results |-> rs, removed |-> <<>>,
           res_table |-> {}]}
    ELSE UNION {{[changed |-> TRUE, dom |-> RemoveValue(dom, x.hp, x.value),
                  results |-> Filter(rs, x.hp, x.value),
                  removed |-> <<[target |-> x.hp, unit |-> x.value]>>,
                  res_table |-> tmp \ {x}],
                 [changed |-> FALSE, dom |-> dom, results |-> rs, removed |-> <<>>,
                  res_table |-> tmp \ {x}]} : x \in Worst(tmp)}

NarrowInit ==
    /\ Fresh
    /\ ld = LoadIdle /\ su = StartupIdle /\ pp = PostIdle /\ cm = ConfigIdle
    /\ sf = FilterIdle /\ tp = TwoIdle /\ fs = LaunchIdle /\ sz = SizeIdle /\ sc = ConstraintIdle
    /\ nw \in {[NarrowIdle EXCEPT !.pc = "analyze", !.dom = search_space_2d,
                                  !.results = rs] : rs \in NarrowTrialLists}

\* main after the fill loop: check = True, the table, and return when no
\* row is removable
AnalyzeRound ==
    /\ nw.pc = "analyze"
    /\ LET table == analyzer(nw.dom, nw.results)
       IN nw' = [nw EXCEPT !.table = table,
                           !.tmp_table = table_filter(table),
                           !.check = TRUE,
                           !.pc = IF table_filter(table) = {} THEN "complete" ELSE "while"]
    /\ UNCHANGED <<controller, ld, su, pp, cm, sf, tp, fs, sz, sc>>

\* "while check:" and the first statements of its body
WhileCheck ==
    /\ nw.pc = "while"
    /\ IF nw.check
       THEN LET table == LoopTable(nw.table, nw.dom, nw.results)
            IN nw' = [nw EXCEPT !.table = table,
                                !.tmp_table = table_filter(table),
                                !.pc = "narrow"]
       ELSE nw' = [nw EXCEPT !.pc = "advance"]
    /\ UNCHANGED <<controller, ld, su, pp, cm, sf, tp, fs, sz, sc>>

\* one call of narrow_search_space and what main does with its result
NarrowCall ==
    /\ nw.pc = "narrow"
    /\ \E out \in narrow_search_space(nw.dom, nw.tmp_table, nw.results) :
         LET after == [nw EXCEPT !.dom = out.dom, !.results = out.results,
                                 !.removals = @ \o out.removed]
         IN IF variant = "search"
            THEN nw' = [after EXCEPT !.check = out.changed, !.pc = "while"]
            ELSE IF ~out.changed /\ out.res_table # {}
                 THEN nw' = [after EXCEPT !.check = out.changed,
                                          !.tmp_table = out.res_table]
                 ELSE nw' = [after EXCEPT !.check = (out.res_table # {}),
                                          !.pc = "while"]
    /\ UNCHANGED <<controller, ld, su, pp, cm, sf, tp, fs, sz, sc>>

NarrowNext == AnalyzeRound \/ WhileCheck \/ NarrowCall

SpecNarrow == NarrowInit /\ [][NarrowNext]_vars

(* --------------------------- two processes ---------------------------- *)
(* Two processes of accdoa_search.py started with the same run name fill  *)
(* the same round: each runs the fill loop on its own results list and    *)
(* both read and write result_<index>.json.                               *)

MaxTrialsEach == 2

Procs == {1, 2}

\* what a file holds when a dump completes: the dumped list, unless the
\* other process has the file open for writing too; then both write into
\* the same file and the bytes may be either list or decode to nothing
DumpOutcomes(rs, shared) == IF shared THEN {Doc(rs), Torn} ELSE {Doc(rs)}

\* both processes have passed "writer.dump([], current_result_path)"
TwoInit ==
    /\ Fresh
    /\ variant = "accdoa"
    /\ ld = LoadIdle /\ su = StartupIdle /\ pp = PostIdle /\ cm = ConfigIdle
    /\ sf = FilterIdle /\ nw = NarrowIdle /\ fs = LaunchIdle /\ sz = SizeIdle /\ sc = ConstraintIdle
    /\ tp = [file |-> Doc(<<>>), pc |-> [p \in Procs |-> "fill"],
             results |-> [p \in Procs |-> <<>>], rec |-> [p \in Procs |-> <<>>],
             trials |-> [p \in Procs |-> 0], dumped |-> {}]

\* while len(results) < n_samples: reload, and leave when the document is full
TwoFillCheck(p) ==
    /\ tp.pc[p] = "fill"
    /\ Decodes(tp.file)
    /\ IF Full(tp.results[p])
       THEN tp' = [tp EXCEPT !.pc[p] = "analyze"]
       ELSE tp' = [tp EXCEPT !.results[p] = tp.file.doc,
                             !.pc[p] = IF Full(tp.file.doc) THEN "analyze" ELSE "train"]
    /\ UNCHANGED <<controller, ld, su, pp, cm, sf, nw, fs, sz, sc>>

\* the trial is sampled, trained and scored
TwoTrain(p) ==
    /\ tp.pc[p] = "train"
    /\ tp.trials[p] < MaxTrialsEach
    /\ tp' = [tp EXCEPT !.trials[p] = @ + 1,
                        !.rec[p] = <<p, tp.trials[p] + 1>>,
                        !.pc[p] = "record"]
    /\ UNCHANGED <<controller, ld, su, pp, cm, sf, nw, fs, sz, sc>>

\* results = writer.load(current_result_path), and break when it is full
TwoReload(p) ==
    /\ tp.pc[p] = "record"
    /\ Decodes(tp.file)
    /\ tp' = [tp EXCEPT !.results[p] = tp.file.doc,
                        !.pc[p] = IF Full(tp.file.doc) THEN "analyze" ELSE "append"]
    /\ UNCHANGED <<controller, ld, su, pp, cm, sf, nw, fs, sz, sc>>

\* Writer.load finds the file undecodable up to its last read
TwoLoadFails(p) ==
    /\ tp.pc[p] \in {"fill", "record"}
    /\ ~Decodes(tp.file)
    /\ tp' = [tp EXCEPT !.pc[p] = "JSONDecodeError"]
    /\ UNCHANGED <<controller, ld, su, pp, cm, sf, nw, fs, sz, sc>>

\* results.append(...) and writer.dump up to open(path, 'w')
TwoAppend(p) ==
    /\ tp.pc[p] = "append"
    /\ tp' = [tp EXCEPT !.results[p] = Append(@, tp.rec[p]),
                        !.file = Torn,
                        !.pc[p] = "dump"]
    /\ UNCHANGED <<controller, ld, su, pp, cm, sf, nw, fs, sz, sc>>

\* writer.dump completes
TwoDumpClose(p) ==
    /\ tp.pc[p] = "dump"
    /\ \E f \in DumpOutcomes(tp.results[p], \E q \in Procs \ {p} : tp.pc[q] = "dump") :
         tp' = [tp EXCEPT !.file = f,
                          !.dumped = @ \cup {tp.rec[p]},
                          !.pc[p] = "fill"]
    /\ UNCHANGED <<controller, ld, su, pp, cm, sf, nw, fs, sz, sc>>

TwoNext ==
    \E p \in Procs :
        \/ TwoFillCheck(p) \/ TwoTrain(p) \/ TwoReload(p)
        \/ TwoLoadFails(p) \/ TwoAppend(p) \/ TwoDumpClose(p)

SpecTwo == TwoInit /\ [][TwoNext]_vars

(* ------------------------- launch with --new -------------------------- *)
(* One launch, with or without --new, on a run directory that holds the   *)
(* documents of fs.nres rounds: result_1 .. result_<nres>, the snapshots  *)
(* search_space_1 .. search_space_<nsp> and the removal logs              *)
(* removed_space_1 .. removed_space_<nrm>.  The launch is followed to the *)
(* fill loop of its first round.                                          *)

MaxPersisted == 3

\* the directories a run leaves behind: the last round may lack its
\* snapshot and its removal log
PersistedRuns ==
    UNION {{[LaunchIdle EXCEPT !.nres = n, !.nsp = p, !.nrm = m, !.found = n] :
               p \in {q \in 0..n : n <= q + 1}, m \in {q \in 0..n : n <= q + 1}} :
           n \in 0..MaxPersisted}

FreshInit ==
    /\ Fresh
    /\ ld = LoadIdle /\ su = StartupIdle /\ pp = PostIdle /\ cm = ConfigIdle
    /\ sf = FilterIdle /\ nw = NarrowIdle /\ tp = TwoIdle /\ sz = SizeIdle /\ sc = ConstraintIdle
    /\ fs \in {[d EXCEPT !.pc = "init", !.new = n] : d \in PersistedRuns, n \in BOOLEAN}

\* Writer.__init__: self.index = self.get_index(), and then, with --new,
\* rm -rf of everything in the run directory
FreshWriterInit ==
    /\ fs.pc = "init"
    /\ fs' = IF fs.new
             THEN [fs EXCEPT !.index = get_index(fs.nres),
                             !.nres = 0, !.nsp = 0, !.nrm = 0, !.pc = "loop"]
             ELSE [fs EXCEPT !.index = get_index(fs.nres), !.pc = "loop"]
    /\ UNCHANGED <<controller, ld, su, pp, cm, sf, nw, tp, sz, sc>>

\* main, top of "while True": writer.index += 1; accdoa_search.py creates
\* the result document of the round when it is absent
FreshRoundTop ==
    /\ fs.pc = "loop"
    /\ fs' = [fs EXCEPT !.index = @ + 1,
                        !.nres = IF variant = "accdoa" /\ fs.nres < fs.index + 1
                                 THEN @ + 1 ELSE @,
                        !.pc = "space"]
    /\ UNCHANGED <<controller, ld, su, pp, cm, sf, nw, tp, sz, sc>>

\* main: the search space of the round: the snapshot when it exists;
\* otherwise search.py builds the initial space, accdoa_search.py builds it
\* when writer.index == 1 and else dumps search_space, which was never
\* assigned in this process
FreshSpace ==
    /\ fs.pc = "space"
    /\ IF fs.index <= fs.nsp
       THEN fs' = [fs EXCEPT !.space = "snapshot", !.pc = "fill"]
       ELSE IF variant = "search" \/ fs.index = 1
            THEN fs' = [fs EXCEPT !.space = "initial", !.nsp = @ + 1, !.pc = "fill"]
            ELSE fs' = [fs EXCEPT !.pc = "UnboundLocalError: search_space"]
    /\ UNCHANGED <<controller, ld, su, pp, cm, sf, nw, tp, sz, sc>>

FreshNext == FreshWriterInit \/ FreshRoundTop \/ FreshSpace

SpecFresh == FreshInit /\ [][FreshNext]_vars

(* --------------------------- model-size test -------------------------- *)
(* The fill loop of accdoa_search.py for one round, with train_and_eval   *)
(* step by step: the size test, the build, the training, and main's       *)
(* "try ... except: continue" around it.                                  *)

\* values of --size the model follows
SizeLimits == {2, 8, 20}

\* rejected configs the model counts
MaxRejected == 2

\* get_model_size(models.accdoa(input_shape, model_config)): the number of
\* parameters, which grows with the filters and the kernel sizes
get_model_size(c) ==
    c.BLOCK0_ARGS.filters0 * c.BLOCK0_ARGS.kernel_size0
    + c.BLOCK0_ARGS.filters1 * c.BLOCK0_ARGS.kernel_size1
    + c.BLOCK0_ARGS.filters2 * c.BLOCK0_ARGS.kernel_size2

\* a size test that lets a model one parameter above the limit pass
TooBigByTwo(model_size, size) == model_size > size + 1

\* if model_size > train_config.size: raise ValueError('model size is big')
TooBig(model_size, size) == model_size > size

SizeInit ==
    /\ Fresh
    /\ variant = "accdoa"
    /\ ld = LoadIdle /\ su = StartupIdle /\ pp = PostIdle /\ cm = ConfigIdle
    /\ sf = FilterIdle /\ nw = NarrowIdle /\ tp = TwoIdle /\ fs = LaunchIdle
    /\ sc = ConstraintIdle
    /\ sz \in {[SizeIdle EXCEPT !.pc = "sample", !.size = z] : z \in SizeLimits}

\* main: model_config = get_config(...)
SizeSample ==
    /\ sz.pc = "sample"
    /\ \E c \in get_config(search_space_2d) :
         sz' = [sz EXCEPT !.model_config = <<c>>, !.pc = "size"]
    /\ UNCHANGED <<controller, ld, su, pp, cm, sf, nw, tp, fs, sc>>

\* train_and_eval: the size test; main's bare except catches the ValueError
\* and the loop samples again
SizeTest ==
    /\ sz.pc = "size"
    /\ LET model_size == get_model_size(sz.model_config[1])
       IN IF TooBig(model_size, sz.size)
          THEN sz' = [sz EXCEPT !.model_config = <<>>, !.pc = "sample",
                                !.rejected = IF @ < MaxRejected THEN @ + 1 ELSE @]
          ELSE sz' = [sz EXCEPT !.model_size = model_size, !.pc = "build"]
    /\ UNCHANGED <<controller, ld, su, pp, cm, sf, nw, tp, fs, sc>>

\* train_and_eval: the model is built and compiled, or the build runs out
\* of memory and the call does not return performances; main samples again
SizeBuild ==
    /\ sz.pc = "build"
    /\ \/ sz' = [sz EXCEPT !.pc = "fit"]
       \/ sz' = [sz EXCEPT !.model_config = <<>>, !.model_size = 0, !.pc = "sample"]
    /\ UNCHANGED <<controller, ld, su, pp, cm, sf, nw, tp, fs, sc>>

\* train_and_eval: model.fit, the evaluation, and
\* performances.update({'flops': ..., 'size': model_size}); main adds the
\* objective score
SizeFit ==
    /\ sz.pc = "fit"
    /\ \E s \in Scores :
         sz' = [sz EXCEPT !.outputs = <<[objective_score |-> s, size |-> sz.model_size]>>,
                          !.pc = "record"]
    /\ UNCHANGED <<controller, ld, su, pp, cm, sf, nw, tp, fs, sc>>

\* main: results.append({'config': model_config, 'perf': outputs}) and the
\* dump; the loop ends when the round is full
SizeRecord ==
    /\ sz.pc = "record"
    /\ LET appended == Append(sz.results,
                              [config |-> sz.model_config[1], perf |-> sz.outputs[1]])
       IN sz' = [sz EXCEPT !.results = JsonResults(appended),
                           !.model_config = <<>>, !.outputs = <<>>, !.model_size = 0,
                           !.pc = IF Full(appended) THEN "analyze" ELSE "sample"]
    /\ UNCHANGED <<controller, ld, su, pp, cm, sf, nw, tp, fs, sc>>

SizeNext == SizeSample \/ SizeTest \/ SizeBuild \/ SizeFit \/ SizeRecord

SpecSize == SizeInit /\ [][SizeNext]_vars

(* -------------------------- sample_constraint ------------------------- *)
(* One call of the predicate _contraint that                              *)
(* sample_constraint(min_flops, max_flops) returns, on a model config     *)
(* with one to three BLOCK slots and the SED and DOA slots.  The module   *)
(* stage_complexity is not among the sources: a config carries the total  *)
(* flops its stages add up to, and whether a complexity function raises   *)
(* ValueError on it.                                                      *)

\* a slot the config does not have
NoSlot == "absent"

\* the values of total_cx['flops'] the model follows
FlopsValues == {1, 2, 3}

\* the bound None of sample_constraint(min_flops=None, max_flops=None)
NoBound == 0 - 1

\* the bounds handed to sample_constraint: None, or a number
FlopsBounds == {NoBound, 0, 2}

\* model configs: BLOCK1 and BLOCK2 may be missing (BLOCK2 only with BLOCK1);
\* the arguments of a stage the config does not have are held at one value
ConstraintConfigs ==
    {c \in [BLOCK0 : {"mother_stage", "bidirectional_GRU_stage"},
            BLOCK0_depth : {1, 3},
            n_convs : 1..2, filters1 : {0, 3}, strides11 : BOOLEAN,
            BLOCK1 : {"bidirectional_GRU_stage", "mother_stage", NoSlot},
            BLOCK1_units : {16, 32}, BLOCK1_depth : {1, 2},
            BLOCK2 : {"transformer_encoder_stage", "bidirectional_GRU_stage", NoSlot},
            SED : {"conformer_encoder_stage", "bidirectional_GRU_stage"},
            DOA : {"bidirectional_GRU_stage", "transformer_encoder_stage"},
            DOA_depth : {1, 3},
            cx_error : BOOLEAN,
            flops : FlopsValues] :
        /\ c.BLOCK1 = NoSlot => c.BLOCK2 = NoSlot
        /\ c.BLOCK0 # "mother_stage" => c.n_convs = 1 /\ c.filters1 = 0 /\ ~c.strides11
        /\ c.BLOCK1 = NoSlot => c.BLOCK1_units = 32 /\ c.BLOCK1_depth = 1}

\* the rule on the convolutions of a mother_stage (n_convs of its filters0,
\* filters1, filters2 are above 0), inside the loop over the blocks: it
\* returns False for one convolution that is not filters1, and for two with
\* filters1 and strides [1, 1]; the model follows it for BLOCK0
ConvRule(c) ==
    /\ c.BLOCK0 = "mother_stage"
    /\ \/ c.n_convs = 1 /\ c.filters1 = 0
       \/ c.n_convs = 2 /\ c.filters1 > 0 /\ c.strides11

\* the number of BLOCK slots that hold a 1D stage
num_1d(c) ==
    Cardinality({i \in 0..2 : /\ <<c.BLOCK0, c.BLOCK1, c.BLOCK2>>[i + 1] # NoSlot
                              /\ <<c.BLOCK0, c.BLOCK1, c.BLOCK2>>[i + 1] # "mother_stage"})

\* the checks on the total complexity: a bound that is None or 0 is skipped
FlopsOutside(flops, min_flops, max_flops) ==
    \/ min_flops \notin {NoBound, 0} /\ flops < min_flops
    \/ max_flops \notin {NoBound, 0} /\ flops > max_flops

\* _contraint(model_config, input_shape): "True", "False", or the exception
\* that leaves it; only ValueError is caught
Constraint(c, min_flops, max_flops) ==
    IF c.cx_error \/ ConvRule(c) THEN "False"
    ELSE IF c.DOA # "bidirectional_GRU_stage" THEN "False"
    ELSE IF num_1d(c) = 4 THEN "False"
    ELSE IF c.BLOCK1 = NoSlot THEN "KeyError: 'BLOCK1'"
    ELSE IF c.BLOCK1 # "bidirectional_GRU_stage" THEN "False"
    ELSE IF c.BLOCK0 # "mother_stage" THEN "False"
    ELSE IF c.BLOCK0_depth = 3 THEN "False"
    ELSE IF c.BLOCK2 = NoSlot THEN "KeyError: 'BLOCK2'"
    ELSE IF c.BLOCK2 # "transformer_encoder_stage" THEN "False"
    ELSE IF c.DOA_depth \notin {1, 3} THEN "False"
    ELSE IF c.SED # "conformer_encoder_stage" THEN "False"
    ELSE IF c.BLOCK1_units = 16 THEN "False"
    ELSE IF c.BLOCK1_depth # 1 THEN "False"
    ELSE IF c.BLOCK1_units \in {8, 24} THEN "False"
    ELSE IF c.DOA_depth # 3 THEN "False"
    ELSE IF FlopsOutside(c.flops, min_flops, max_flops) THEN "False"
    ELSE "True"

ConstraintInit ==
    /\ Fresh
    /\ variant = "search"
    /\ ld = LoadIdle /\ su = StartupIdle /\ pp = PostIdle /\ cm = ConfigIdle
    /\ sf = FilterIdle /\ nw = NarrowIdle /\ tp = TwoIdle /\ fs = LaunchIdle
    /\ sz = SizeIdle
    /\ sc \in {[ConstraintIdle EXCEPT !.pc = "call", !.model_config = c,
                                      !.min_flops = lo, !.max_flops = hi] :
                  c \in ConstraintConfigs, lo \in {NoBound, 2}, hi \in FlopsBounds}

\* the predicate is called; it reads the config and assigns nothing to it
ApplyConstraint ==
    /\ sc.pc = "call"
    /\ sc' = [sc EXCEPT !.pc = "done",
                        !.out = Constraint(sc.model_config, sc.min_flops, sc.max_flops),
                        !.after = sc.model_config]
    /\ UNCHANGED <<controller, ld, su, pp, cm, sf, nw, tp, fs, sz>>

ConstraintNext == ApplyConstraint

SpecConstraint == ConstraintInit /\ [][ConstraintNext]_vars

(* ------------------------------ properties ---------------------------- *)

\* a is an initial segment of b
IsPrefix(a, b) == Len(a) <= Len(b) /\ \A i \in 1..Len(a) : a[i] = b[i]

\* the running process was started after a kill that struck FILLING with
\* fewer than n_samples trials persisted
ResumedMidFilling ==
    /\ crashed.round \in Rounds
    /\ Len(crashed.recs) < NSamples

\* C1: a controller killed during FILLING of round r with k < n_samples
\* trials persisted and then restarted resumes round r: it does not abort on
\* what the kill left on disk, it keeps the k persisted trials, and it trains
\* exactly n_samples - k more before round r is analysed.
C1_ResumeMidFilling ==
    ResumedMidFilling =>
        /\ exit \notin {"JSONDecodeError", "UnboundLocalError: search_space"}
        /\ (pc = "analyze" /\ index = crashed.round) =>
               /\ IsPrefix(crashed.recs, results)
               /\ trained = NSamples - Len(crashed.recs)

\* C2: a dump replaces the result document atomically: at every instant, and
\* so after a crash at any point, a result document that exists decodes and
\* holds every trial whose dump had completed.
C2_DumpAtomic ==
    \A r \in Rounds :
        Exists(resFile[r]) =>
            /\ Decodes(resFile[r])
            /\ IsPrefix(acked[r], resFile[r].doc)

\* no two trials of a result document have the same canonical configuration
NoDuplicate(doc) ==
    \A i, j \in 1..Len(doc) : i # j => doc[i].config # doc[j].config

\* C3: no two trials recorded in the same round have identical canonical
\* configurations.
C3_DedupWithinRound ==
    \A r \in Rounds : Decodes(resFile[r]) => NoDuplicate(resFile[r].doc)

\* every domain of a is contained in the same domain of b
SubSpace(a, b) == \A h \in HPNames : JsonSpace(a)[h] \subseteq JsonSpace(b)[h]

\* C4: a value removed from a domain never reappears: whenever the controller
\* replaces the search space it works on, every domain of the new space is
\* contained in the domain it replaces.
C4_RemovalMonotone ==
    [][(search_space.bound /\ search_space'.bound)
          => SubSpace(search_space'.dom, search_space.dom)]_vars

\* the number of values a space still offers, the measure of convergence
RECURSIVE SizeOver(_, _)
SizeOver(dom, hs) ==
    IF hs = {} THEN 0
    ELSE LET h == CHOOSE x \in hs : TRUE
         IN Cardinality(dom[h]) + SizeOver(dom, hs \ {h})

Size(dom) == SizeOver(dom, HPNames)

\* C5: the search terminates because the space strictly shrinks from round to
\* round: the snapshot a round starts from offers fewer values than the
\* snapshot of the round before it, so only finitely many rounds can follow.
C5_Convergence ==
    \A r \in Rounds :
        (r > 1 /\ Decodes(spFile[r]) /\ Decodes(spFile[r - 1]))
            => Size(spFile[r].doc[1]) < Size(spFile[r - 1].doc[1])

\* a space with every removal of a removal log applied
RECURSIVE RemoveAll(_, _)
RemoveAll(dom, removes) ==
    IF removes = <<>> THEN dom
    ELSE RemoveAll(RemoveValue(dom, Head(removes).target, Head(removes).unit),
                   Tail(removes))

\* the snapshot of round r derived from round r - 1: its snapshot minus the
\* values its removal log names
Derived(r) ==
    RemoveAll(spFile[r - 1].doc[1],
              IF Exists(rmFile[r - 1]) THEN rmFile[r - 1].doc ELSE <<>>)

\* round r - 1 left a snapshot, and a removal log if any, that decode
PreviousRoundReadable(r) ==
    /\ Decodes(spFile[r - 1])
    /\ Exists(rmFile[r - 1]) => Decodes(rmFile[r - 1])

\* C6: when the controller reaches round r > 1 and the snapshot of round r is
\* absent, the space it goes on with is the snapshot of round r - 1 minus the
\* values in the removal log of round r - 1, never the full initial space.
C6_SnapshotDerivation ==
    [][(/\ pc = "space"
        /\ index > 1
        /\ ~Exists(spFile[index])
        /\ PreviousRoundReadable(index)
        /\ exit' # "killed")
          => /\ search_space'.bound
             /\ JsonSpace(search_space'.dom) = Derived(index)]_vars

\* C9: a trainer failure is never fatal: the step that handles it keeps the
\* process running, moves to a fresh sample or to the write of the error log,
\* and changes neither the trial index nor the result documents.
C9_TrainerFailureNotFatal ==
    [][(/\ pc \in {"train", "err_dump"}
        /\ pc' # "record"
        /\ exit' # "killed")
          => /\ pc' \in {"sample", "err_dump"}
             /\ exit' = "running"
             /\ results' = results
             /\ resFile' = resFile
             /\ index' = index]_vars

\* the members of a sequence
Range(seq) == {seq[i] : i \in 1..Len(seq)}

\* what the error log held when the handler of a trainer failure began
LoggedBefore ==
    IF pc = "err_dump" THEN Range(configs) \ {model_config[1]}
    ELSE IF Decodes(errFile) THEN Range(errFile.doc)
    ELSE {}

\* C10: when the handler of a trainer failure has finished, the error log
\* decodes and holds the configuration that failed together with every
\* configuration it held before.
C10_ErrorLogKeepsAll ==
    [][(/\ pc \in {"train", "err_dump"}
        /\ pc' \notin {"record", "err_dump"}
        /\ exit' # "killed")
          => /\ Decodes(errFile')
             /\ LoggedBefore \subseteq Range(errFile'.doc)
             /\ JsonConfig(model_config[1]) \in Range(errFile'.doc)]_vars

\* C7: Writer.load returns the document of the first read that decodes, sleeps
\* once per decode failure, and after RetryCeiling failures in a row makes one
\* last read whose decode error reaches the caller: a call makes at most
\* RetryCeiling + 1 reads and a file that never decodes ends it in an error.
C7_BoundedReadRetry ==
    /\ ld.reads <= RetryCeiling + 1
    /\ ld.count <= RetryCeiling
    /\ ld.sleeps = ld.count
    /\ ld.pc = "try" => ld.reads = ld.count /\ ld.count < RetryCeiling
    /\ ld.pc = "except" => ld.reads = ld.count + 1 /\ ld.count < RetryCeiling
    /\ ld.pc = "final" => ld.reads = RetryCeiling /\ ld.count = RetryCeiling
    /\ ld.pc = "returned" => ld.reads = ld.count + 1 /\ ld.ret = ld.file.doc
    /\ ld.pc = "raised" => /\ ld.reads = RetryCeiling + 1
                           /\ ld.count = RetryCeiling
                           /\ ~Decodes(ld.file)

\* a load that failed on every one of its reads
C7_Witness == ld.pc = "raised" /\ ld.reads = RetryCeiling + 1

C11_AttemptsBounded == attempts <= MaxAttempts

\* the first trial of the round is being trained
FirstTrialOfRound == pc = "train" /\ Len(results) = 0

\* C12: a round whose table has no removable row when it starts completes the
\* search without a trial: the first trial of a round after the first is
\* trained only when the table built from the trials at hand has a removable
\* row.
C12_CompleteAtRoundStart ==
    (FirstTrialOfRound /\ index > 1 /\ search_space.bound /\ GatherDecodes)
        => table_filter(analyzer(search_space.dom, Gathered)) # {}

\* a process runs that found a train config on disk other than the one its
\* command line asks for
RunMismatch ==
    /\ su.pc # "off"
    /\ Decodes(su.tc0)
    /\ su.tc0.doc[1] # su.req

\* the step writes nothing and does not enter the round loop
NothingWritten == su'.pc # "loop" /\ su'.tc = su.tc /\ su'.docs = su.docs

\* the comparison step ends the process
ComparisonFatal ==
    su.pc = "check" =>
        su'.exit \in {"ValueError: train config doesn't match", "killed"}

C14_RecordsImmutable ==
    [][\A r \in Rounds :
         /\ (Decodes(resFile[r]) /\ Decodes(resFile'[r]))
               => resFile'[r].doc = resFile[r].doc
         /\ (Decodes(resFile[r]) /\ ~Decodes(resFile'[r]))
               => /\ r = index' /\ pc' = "dump_res"
                  /\ IsPrefix(resFile[r].doc, JsonResults(results'))
         /\ (~Exists(resFile[r]) /\ Exists(resFile'[r])) => r = index'
         /\ (~Decodes(resFile[r]) /\ Decodes(resFile'[r]))
               => /\ r = index
                  /\ IsPrefix(acked[r], resFile'[r].doc)]_vars

\* a restarted process has appended the second trial to the document that
\* the process before it left with one trial
C14_Witness ==
    /\ starts = 2 /\ trained = 1 /\ pc = "fill"
    /\ index \in Rounds
    /\ Decodes(resFile[index]) /\ Len(resFile[index].doc) = 2
    /\ resFile[index].doc[1] # resFile[index].doc[2]

\* C15: postprocess_fn is idempotent: applied to its own result it returns
\* that result.
C15_Idempotent == pp.pc = "twice" => pp.twice = pp.once

\* a config that postprocess_fn rewrote in every group of fields was put
\* through it twice
C15_Witness ==
    /\ pp.pc = "twice"
    /\ pp.c.BLOCK0 = "mother_stage"
    /\ pp.c.BLOCK0_ARGS.filters1 = 0 /\ pp.c.BLOCK0_ARGS.filters2 = 0
    /\ pp.c.BLOCK0_ARGS.filters0 # 0
    /\ pp.once # pp.c

\* the bodies of the documents of a directory
StoredBodies(files) == {files[v + 1] : v \in Stored(files)}

\* the largest version number of a directory
LargestVersion(files) == CHOOSE v \in Stored(files) : \A w \in Stored(files) : w <= v

\* C16: when get_config in load mode stores a body no version holds, the new
\* document's version is one more than the largest existing version and no
\* existing document changes.
C16_UniqueIncrementingVersions ==
    [][(/\ cm.pc = "called" /\ cm.mode = "l"
        /\ cm.typed \notin StoredBodies(cm.files)
        /\ cm'.how = "saved")
          => /\ cm'.name = 1 + LargestVersion(cm.files)
             /\ \A v \in Stored(cm.files) : cm'.files[v + 1] = cm.files[v + 1]]_vars

\* C17: in load mode, when some version holds the final body, get_config
\* returns a version that holds it and writes nothing.
C17_DuplicateReuse ==
    [][(/\ cm.pc = "called" /\ cm.mode = "l"
        /\ cm.files[cm.load + 1] # NoFile
        /\ cm.typed \in StoredBodies(cm.files))
          => /\ cm'.how = "duplicate"
             /\ cm'.files = cm.files
             /\ cm.files[cm'.name + 1] = cm.typed]_vars

\* C18: the document of the version get_config returns holds the body it
\* returns, and no version was returned for two different bodies.
C18_DistinctBodiesDistinctIds ==
    /\ cm.pc = "returned" => cm.files[cm.name + 1] = cm.body
    /\ \A p, q \in cm.given : p[1] = q[1] => p[2] = q[2]

\* C19: in a mode with 'l' and 'o' get_config returns the stored document as
\* it is, whatever was typed, and writes nothing.
C19_OnlyLoaded ==
    [][(/\ cm.pc = "called" /\ cm.mode = "lo"
        /\ cm.files[cm.load + 1] # NoFile)
          => /\ cm'.pc = "returned"
             /\ cm'.name = cm.load
             /\ cm'.body = cm.files[cm.load + 1]
             /\ cm'.files = cm.files]_vars

\* the trial's config holds a removed value at the removed hyperparameter
UsedRemoved(r, removes) ==
    \E i \in 1..Len(removes) :
        /\ removes[i].target \in DOMAIN r.config.BLOCK0_ARGS
        /\ r.config.BLOCK0_ARGS[removes[i].target] = removes[i].unit

\* the trials that used no removed value, in their order
Retained(trials, removes) ==
    LET Keep(r) == ~UsedRemoved(r, removes)
    IN SelectSeq(trials, Keep)

\* C20: applying the removal records raises no error, and the trials handed
\* to the analyzer are exactly the gathered trials that used no removed
\* value; a trial without the removed hyperparameter is among them.
C20_ExclusionBeforeAggregation ==
    /\ sf.error # "ValueError"
    /\ sf.pc = "analyzer" => sf.results = Retained(sf.trials, sf.removed)

\* every result document and removal log of rounds 1..r decodes
HistoryReadable(r) ==
    \A q \in 1..r : /\ Exists(resFile[q]) => Decodes(resFile[q])
                    /\ Exists(rmFile[q]) => Decodes(rmFile[q])

\* the trials of the result documents of rounds 1..r that no removal record
\* of those rounds excludes
ValidHistory(r) == FilterAll(Concat(resFile, r), Concat(rmFile, r))

\* C21: the trials handed to the analyzer at the end of round r are the
\* trials of the result documents of all rounds 1..r, minus the excluded
\* ones, and not only those of round r.
C21_HistoricalAggregation ==
    (pc = "analyze" /\ HistoryReadable(index))
        => JsonResults(Gathered) = ValidHistory(index)

\* the values dom holds and dom2 does not, with their dimensions
Removed(dom, dom2) == UNION {{<<h, v>> : v \in dom[h] \ dom2[h]} : h \in HPNames}

AnalysingPcs == {"analyze", "narrow", "dump_rm"}

C24_NoLostUpdate ==
    (Decodes(tp.file) /\ \A p \in DOMAIN tp.pc : tp.pc[p] # "dump")
        => \A rec \in tp.dumped : \E i \in 1..Len(tp.file.doc) : tp.file.doc[i] = rec

\* C25: a launch with --new discards the documents of the run and begins at
\* round 1 with the initial search space, however many rounds the directory
\* held.
C25_FreshStart ==
    fs.new =>
        /\ fs.pc = "loop" => fs.nres = 0 /\ fs.nsp = 0 /\ fs.nrm = 0
        /\ fs.pc = "space" => fs.index = 1
        /\ fs.pc \notin {"init", "loop", "space"}
              => fs.pc = "fill" /\ fs.index = 1 /\ fs.space = "initial"

\* C26: when fewer than n_samples trials are left after the removal records
\* were applied, accdoa_search.py ends with an error at that step, before
\* the table and the narrowing, and no document of the run changes.
C26_FilteringGuard ==
    [][(/\ pc = "analyze" /\ variant = "accdoa"
        /\ GatherDecodes
        /\ Len(Gathered) < NSamples)
          => /\ pc' = "off"
             /\ exit' \in {"ValueError: filtering is wrong", "killed"}
             /\ UNCHANGED disk]_vars

\* a process ended at the guard, with a full result document on disk
C26_Witness ==
    /\ pc = "off" /\ exit = "ValueError: filtering is wrong"
    /\ \E r \in Rounds : Decodes(resFile[r]) /\ Len(resFile[r].doc) = NSamples

\* C27: every trial record accdoa_search.py persists has perf.size at most
\* train_config.size, perf.size is the size of the recorded config, and a
\* config above the limit is neither built, trained nor recorded.
C27_SizeLimit ==
    /\ \A i \in 1..Len(sz.results) :
           /\ sz.results[i].perf.size <= sz.size
           /\ sz.results[i].perf.size = get_model_size(sz.results[i].config)
    /\ sz.pc \in {"build", "fit", "record"}
           => get_model_size(sz.model_config[1]) <= sz.size

\* a config above the limit was sampled and rejected, and the round was
\* filled with trials all the same
C27_Witness == sz.rejected > 0 /\ sz.pc = "analyze" /\ Len(sz.results) = NSamples

\* the arguments a of a mother_stage are in canonical form
CanonicalArgs(a) ==
    /\ a.filters0 = 0 => a.kernel_size0 = 0 /\ a.connect1.v[2] = 0 /\ a.connect2.v[2] = 0
    /\ a.filters1 = 0 => a.kernel_size1 = 0 /\ a.connect2.v[3] = 0 /\ a.strides = Lst(<<1, 1>>)
    /\ a.filters2 = 0 => a.kernel_size2 = 0
    /\ (a.filters2 = 0 /\ a.filters1 # 0) => a.connect2.v[3] = 1

\* what the canonicalisation of b into a leaves as it was
RestUnchanged(a, b) ==
    /\ a.filters0 = b.filters0 /\ a.filters1 = b.filters1 /\ a.filters2 = b.filters2
    /\ a.connect1.tup = b.connect1.tup /\ a.connect2.tup = b.connect2.tup
    /\ a.connect1.v[1] = b.connect1.v[1] /\ a.connect2.v[1] = b.connect2.v[1]
    /\ Len(a.connect1.v) = Len(b.connect1.v) /\ Len(a.connect2.v) = Len(b.connect2.v)
    /\ a.filters0 # 0 => a.kernel_size0 = b.kernel_size0 /\ a.connect1.v[2] = b.connect1.v[2]
    /\ a.filters1 # 0 => a.kernel_size1 = b.kernel_size1 /\ a.strides = b.strides
    /\ a.filters2 # 0 => a.kernel_size2 = b.kernel_size2
    /\ (a.filters0 # 0 /\ (a.filters1 # 0 \/ a.filters2 # 0))
          => a.connect2.v[2] = b.connect2.v[2]
    /\ (a.filters1 # 0 /\ a.filters2 # 0) => a.connect2.v[3] = b.connect2.v[3]

InsideBounds(flops, min_flops, max_flops) ==
    /\ min_flops # NoBound => flops >= min_flops
    /\ max_flops # NoBound => flops <= max_flops

\* C29: the predicate returns True or False for every config and never
\* raises, leaves the config as it was, and returns True only for a config
\* with BLOCK0 mother_stage, BLOCK1 bidirectional_GRU_stage, BLOCK2
\* transformer_encoder_stage, SED conformer_encoder_stage, DOA
\* bidirectional_GRU_stage of depth 3 and flops inside [min_flops, max_flops].
C29_ConstraintPredicate ==
    sc.pc = "done" =>
        /\ sc.out \in {"True", "False"}
        /\ sc.after = sc.model_config
        /\ sc.out = "True" =>
              /\ sc.model_config.BLOCK0 = "mother_stage"
              /\ sc.model_config.BLOCK1 = "bidirectional_GRU_stage"
              /\ sc.model_config.BLOCK2 = "transformer_encoder_stage"
              /\ sc.model_config.SED = "conformer_encoder_stage"
              /\ sc.model_config.DOA = "bidirectional_GRU_stage"
              /\ sc.model_config.DOA_depth = 3
              /\ InsideBounds(sc.model_config.flops, sc.min_flops, sc.max_flops)

\* C30: a search-space snapshot that writer.dump has written is read back by
\* writer.load as the value that was dumped: the document search_space_<r>.json
\* holds after the dump equals the search space in memory, the one the run
\* goes on with and a restarted run reloads.
C30_LosslessRoundTrip ==
    [][(pc = "dump_space" /\ pc' = "fill" /\ Decodes(spFile'[index]))
          => spFile'[index].doc[1] = search_space.dom]_vars
====
